---- MODULE Spec2Model ----
(***************************************************************************)
(* Model of src/main.py: the DuckDBGDriveManager (temporary directory,     *)
(* credential file, downloaded database file, session handle, schema       *)
(* snapshot), the UI handlers on_file_upload, connect_database and        *)
(* execute_query, and the manager's cleanup.                               *)
(*                                                                         *)
(* db_manager is one module-level object (line 91); the handler argument   *)
(* `state` is per user session, so the UI fields are functions over Users. *)
(* A handler runs to completion before the next event is processed: the    *)
(* steps of initialize_connection are separate actions, and while one is   *)
(* in flight (pc # "idle") no other handler is enabled.                    *)
(***************************************************************************)
EXTENDS Integers, Sequences, FiniteSets, TLC

\* ---------------------------------------------------------------- bounds
MaxHandles == 2     \* handles duckdb.connect hands out in one run
MaxChunks == 2      \* next_chunk calls that report "not done" in one download
MaxMatches == 2     \* files the Drive lookup returns at most
MaxDuration == 1    \* largest measured duration, in seconds

Users == {"u1", "u2"}
SingleUser == {"u1"}

\* ---------------------------------------------------------------- values
PyNone == [t |-> "NoneType", v |-> ""]
PyStr(s) == [t |-> "str", v |-> s]
NoTime == [t |-> "NoneType", secs |-> 0]
PyFloat(d) == [t |-> "float", secs |-> d]

NoResults == [t |-> "NoneType", cols |-> <<>>, rows |-> <<>>]
DataFrame(c, r) == [t |-> "DataFrame", cols |-> c, rows |-> r]

CREDS_NAME == "creds.json"
DB_NAME == "pricecatcher.duckdb"

\* Texts a user may upload.
GoodCredsText == "{\"type\": \"service_account\"}"
FileContents == {GoodCredsText, "{}", "0", "null", "{bad"}

\* json.loads: the parsed value, or a JSONDecodeError.
json_loads(text) ==
    CASE text = GoodCredsText -> [ok |-> TRUE, val |-> [t |-> "dict", v |-> "service_account"]]
      [] text = "{}" -> [ok |-> TRUE, val |-> [t |-> "dict", v |-> ""]]
      [] text = "[]" -> [ok |-> TRUE, val |-> [t |-> "list", v |-> ""]]
      [] text = "0" -> [ok |-> TRUE, val |-> [t |-> "int", v |-> "0"]]
      [] text = "\"\"" -> [ok |-> TRUE, val |-> [t |-> "str", v |-> ""]]
      [] text = "null" -> [ok |-> TRUE, val |-> PyNone]
      [] OTHER -> [ok |-> FALSE, val |-> PyNone]

\* json.dump: the text written for a parsed value.
json_dump(val) ==
    CASE val.t = "dict" /\ val.v = "service_account" -> GoodCredsText
      [] val.t = "dict" -> "{}"
      [] val.t = "list" -> "[]"
      [] val.t = "int" -> val.v
      [] val.t = "str" -> "\"\""
      [] OTHER -> "null"

\* The check of connect_database, were it left out.
TruthyUnchecked(val) == TRUE

\* Python truth value of a parsed JSON value (`if state.credentials_content:`).
Truthy(val) ==
    CASE val.t = "NoneType" -> FALSE
      [] val.t = "int" -> val.v # "0"
      [] OTHER -> val.v # ""

\* from_service_account_file accepts only a service-account mapping; whether
\* the key it holds is valid is the library's answer.
AuthAccepts(text) ==
    /\ json_loads(text).ok
    /\ json_loads(text).val.t = "dict"
    /\ json_loads(text).val.v = "service_account"

\* SQL texts a user may type, and what the engine answers on a handle.
QueryTexts == {"SELECT 1 AS x", "SELECT a, b FROM t", "SELEC * FROM t"}
ParserError == "Parser Error: syntax error at or near \"SELEC\""
CatalogError == "Catalog Error: Table with name t does not exist!"
ClosedError == "Connection Error: Connection already closed!"

EngineOk(df) == [ok |-> TRUE, df |-> df, err |-> ""]
EngineErr(msg) == [ok |-> FALSE, df |-> NoResults, err |-> msg]

\* self._connection.execute(query).fetchdf(): the possible outcomes.
ConnectionExecute(hstate, q) ==
    IF hstate # "open" THEN {EngineErr(ClosedError)}
    ELSE CASE q = "SELECT 1 AS x" -> {EngineOk(DataFrame(<<"x">>, << <<"1">> >>))}
           [] q = "SELECT a, b FROM t" ->
                {EngineOk(DataFrame(<<"a", "b">>, << <<"1", "x">>, <<"2", "y">> >>)),
                 EngineErr(CatalogError)}
           [] OTHER -> {EngineErr(ParserError)}

\* The seconds between the two datetime.now() readings around a call; the
\* wall clock is taken not to be set back in between.
Durations == 0..MaxDuration

\* ---------------------------------------------------------------- state
VARIABLES
    temp_dir,             \* self._temp_dir exists on disk
    files,                \* file name -> content, the files inside self._temp_dir
    connection,           \* self._connection: a handle id, 0 for None
    table_info,           \* self.table_info: id of the handle introspected, 0 for None
    handles,              \* handle id -> "open" | "closed", every handle ever opened
    opener,               \* handle id -> the user whose connect opened it
    credentials_content,  \* state.credentials_content, per user
    connection_status,    \* state.connection_status, per user
    results,              \* state.results, per user
    ui_table_info,        \* state.table_info, per user
    execution_time,       \* state.execution_time, per user
    error_message,        \* state.error_message, per user
    notification,         \* the last notify(state, kind, msg)
    pc,                   \* position of the connect in flight, "idle" when none
    cur,                  \* the user whose connect is in flight
    chunks,               \* next_chunk calls of the download in flight
    uploaded,             \* per user: some upload has parsed
    cleaned,              \* cleanup has run
    last                  \* what the last handler did

mgr == <<temp_dir, files, connection, table_info, handles, opener>>
ui == <<credentials_content, connection_status, results, ui_table_info,
        execution_time, error_message>>
vars == <<mgr, ui, notification, pc, cur, chunks, uploaded, cleaned, last>>

NoFiles == [n \in {} |-> ""]
WriteFile(fs, name, content) ==
    [n \in (DOMAIN fs) \cup {name} |-> IF n = name THEN content ELSE fs[n]]

\* The content of a file of the directory, "<absent>" when it is not there.
FileContent(fs, name) == IF name \in DOMAIN fs THEN fs[name] ELSE "<absent>"

Notify(u, kind, msg) == [u |-> u, kind |-> kind, msg |-> msg]

\* The record of a handler run: the operation, its user, its outcome, whether a
\* SQL text was handed to a handle and to which, and for a connect the manager
\* and UI fields as they were when the button was pressed.
\* prev_op and prev_out are the operation and outcome of the run before it;
\* ret is what download_results returned.  For a connect, steps are the steps of
\* initialize_connection that have run, matches is the length of the list the
\* lookup returned and file_id the position in it of the file requested.  For a
\* query handed to the manager, measured is the time the call took.
FirstLast(op, u, out, fwd, h) ==
    [op |-> op, u |-> u, out |-> out, forwarded |-> fwd, h |-> h,
     at |-> "", cause |-> "", prev_op |-> "", prev_out |-> "", ret |-> PyNone,
     pre_connection |-> 0, pre_table_info |-> 0, pre_status |-> FALSE,
     pre_ui_table_info |-> 0, pre_db |-> "", pre_handles |-> 0,
     steps |-> <<>>, matches |-> 0, file_id |-> 0, measured |-> 0]

Last(op, u, out, fwd, h) ==
    [FirstLast(op, u, out, fwd, h) EXCEPT !.prev_op = last.op, !.prev_out = last.out]

Init ==
    /\ temp_dir = TRUE
    /\ files = NoFiles
    /\ connection = 0
    /\ table_info = 0
    /\ handles = <<>>
    /\ opener = <<>>
    /\ credentials_content = [u \in Users |-> PyNone]
    /\ connection_status = [u \in Users |-> FALSE]
    /\ results = [u \in Users |-> NoResults]
    /\ ui_table_info = [u \in Users |-> 0]
    /\ execution_time = [u \in Users |-> NoTime]
    /\ error_message = [u \in Users |-> PyNone]
    /\ notification = Notify("", "", "")
    /\ pc = "idle"
    /\ cur = ""
    /\ chunks = 0
    /\ uploaded = [u \in Users |-> FALSE]
    /\ cleaned = FALSE
    /\ last = FirstLast("init", "", "", FALSE, 0)

\* ---------------------------------------------------------------- on_file_upload
\* The except branch, were it to reset the stored credentials.
on_file_upload_except_unsets(u) ==
    /\ notification' = Notify(u, "error", "Invalid credentials file")
    /\ credentials_content' = [credentials_content EXCEPT ![u] = PyNone]
    /\ UNCHANGED uploaded

\* The except branch: the notification, nothing stored.
on_file_upload_except(u) ==
    /\ notification' = Notify(u, "error", "Invalid credentials file")
    /\ UNCHANGED <<credentials_content, uploaded>>

on_file_upload(u, file) ==
    /\ pc = "idle"
    /\ IF json_loads(file).ok
       THEN /\ credentials_content' =
                   [credentials_content EXCEPT ![u] = json_loads(file).val]
            /\ uploaded' = [uploaded EXCEPT ![u] = TRUE]
            /\ last' = Last("upload", u, "ok", FALSE, 0)
            /\ UNCHANGED notification
       ELSE /\ on_file_upload_except(u)
            /\ last' = Last("upload", u, "error", FALSE, 0)
    /\ UNCHANGED <<mgr, connection_status, results, ui_table_info, execution_time,
                   error_message, pc, cur, chunks, cleaned>>

\* ---------------------------------------------------------------- connect_database
\* The button: the credentials check, then initialize_connection step by step.
connect_database(u) ==
    /\ pc = "idle"
    /\ IF Truthy(credentials_content[u])
       THEN /\ Len(handles) < MaxHandles
            /\ pc' = "persist"
            /\ cur' = u
            /\ last' = [Last("connect", u, "running", FALSE, 0) EXCEPT
                           !.pre_connection = connection,
                           !.pre_table_info = table_info,
                           !.pre_status = connection_status[u],
                           !.pre_ui_table_info = ui_table_info[u],
                           !.pre_db = FileContent(files, DB_NAME),
                           !.pre_handles = Len(handles)]
            /\ UNCHANGED notification
       ELSE /\ notification' = Notify(u, "error", "Please upload credentials first")
            /\ last' = Last("connect", u, "rejected", FALSE, 0)
            /\ UNCHANGED <<pc, cur>>
    /\ UNCHANGED <<mgr, ui, chunks, uploaded, cleaned>>

\* except Exception: return False, and connect_database's else branch.
\* `cause` is what raised: an external call ("external"), the lookup finding no
\* file ("not_found"), the credentials ("input"), or the local state ("state").
RunStep(l) ==
    [l EXCEPT !.steps = IF @ # <<>> /\ @[Len(@)] = pc THEN @ ELSE Append(@, pc)]

ConnectionFailedWith(cause, l) ==
    /\ notification' = Notify(cur, "error", "Connection failed")
    /\ last' = [RunStep(l) EXCEPT !.out = "failed", !.at = pc, !.cause = cause]
    /\ pc' = "idle"
    /\ cur' = ""
    /\ chunks' = 0
    /\ UNCHANGED <<ui, uploaded, cleaned>>

ConnectionFailed(cause) == ConnectionFailedWith(cause, last)

\* A step of initialize_connection went through: on to the next one.
ProceedWith(next, l) ==
    /\ pc' = next
    /\ last' = RunStep(l)
    /\ UNCHANGED <<ui, notification, cur, uploaded, cleaned>>

Proceed(next) == ProceedWith(next, last)

\* open(creds_path, 'w') and json.dump.
initialize_connection_persist ==
    /\ pc = "persist"
    /\ \/ /\ temp_dir
          /\ files' = WriteFile(files, CREDS_NAME, json_dump(credentials_content[cur]))
          /\ Proceed("auth")
          /\ UNCHANGED <<temp_dir, connection, table_info, handles, opener, chunks>>
       \/ /\ ConnectionFailed(IF temp_dir THEN "external" ELSE "state")
          /\ UNCHANGED mgr

\* Credentials.from_service_account_file and build('drive', 'v3').
initialize_connection_auth ==
    /\ pc = "auth"
    /\ \/ /\ AuthAccepts(files[CREDS_NAME])
          /\ Proceed("lookup")
          /\ UNCHANGED <<mgr, chunks>>
       \/ /\ ConnectionFailed(IF AuthAccepts(files[CREDS_NAME]) THEN "external" ELSE "input")
          /\ UNCHANGED mgr

\* The check, were it left out.
NoMatchUnchecked(n) == FALSE

\* `if not files`
NoMatch(n) == n = 0

\* files[0]: the position in the list of the file requested.
FirstMatch(n) == 1

\* files().list(...).execute(): n matches, or an error; no match raises.
initialize_connection_lookup ==
    /\ pc = "lookup"
    /\ \/ \E n \in 0..MaxMatches:
             /\ IF NoMatch(n)
                THEN ConnectionFailedWith("not_found", [last EXCEPT !.matches = n])
                ELSE /\ ProceedWith("openfile",
                            [last EXCEPT !.matches = n, !.file_id = FirstMatch(n)])
                     /\ UNCHANGED chunks
             /\ UNCHANGED mgr
       \/ /\ ConnectionFailed("external")
          /\ UNCHANGED mgr

\* io.FileIO(self._db_path, 'wb'): creates the file or truncates it.
\* Mode 'xb' instead: it opens only when the file is not there yet.
FileIO_xb_opens == temp_dir /\ DB_NAME \notin DOMAIN files

\* It opens when the directory is there.
FileIO_wb_opens == temp_dir

initialize_connection_openfile ==
    /\ pc = "openfile"
    /\ \/ /\ FileIO_wb_opens
          /\ files' = WriteFile(files, DB_NAME, "")
          /\ chunks' = 0
          /\ Proceed("download")
          /\ UNCHANGED <<temp_dir, connection, table_info, handles, opener>>
       \/ /\ ConnectionFailed(IF FileIO_wb_opens THEN "external" ELSE "state")
          /\ UNCHANGED mgr

\* The loop, were the flag next_chunk returns never looked at.
initialize_connection_next_chunk_ignores_done ==
    /\ pc = "download"
    /\ \/ /\ chunks < MaxChunks
          /\ chunks' = chunks + 1
          /\ files' = WriteFile(files, DB_NAME, "partial")
          /\ Proceed("download")
          /\ UNCHANGED <<temp_dir, connection, table_info, handles, opener>>
       \/ /\ files' = WriteFile(files, DB_NAME, "complete")
          /\ chunks' = 0
          /\ Proceed("download")
          /\ UNCHANGED <<temp_dir, connection, table_info, handles, opener>>
       \/ /\ ConnectionFailed("external")
          /\ UNCHANGED mgr

\* while not done: _, done = downloader.next_chunk().  A transfer reports done
\* or raises after MaxChunks chunks at the latest.
initialize_connection_next_chunk ==
    /\ pc = "download"
    /\ \/ /\ chunks < MaxChunks
          /\ chunks' = chunks + 1
          /\ files' = WriteFile(files, DB_NAME, "partial")
          /\ Proceed("download")
          /\ UNCHANGED <<temp_dir, connection, table_info, handles, opener>>
       \/ /\ files' = WriteFile(files, DB_NAME, "complete")
          /\ chunks' = 0
          /\ Proceed("open")
          /\ UNCHANGED <<temp_dir, connection, table_info, handles, opener>>
       \/ /\ ConnectionFailed("external")
          /\ UNCHANGED mgr

\* self._connection = duckdb.connect(self._db_path, read_only=True).  The handle
\* replaced is never closed by the code: whether its finaliser has closed it is
\* the interpreter's choice.
duckdb_connect_keeps_first ==
    \E finalised \in BOOLEAN:
        /\ handles' = Append(handles, IF connection = 0 \/ ~finalised THEN "open" ELSE "closed")
        /\ opener' = Append(opener, cur)
        /\ connection' = IF connection = 0 THEN Len(handles) + 1 ELSE connection

duckdb_connect ==
    \E finalised \in BOOLEAN:
        /\ handles' = Append(IF connection # 0 /\ finalised
                             THEN [handles EXCEPT ![connection] = "closed"]
                             ELSE handles, "open")
        /\ opener' = Append(opener, cur)
        /\ connection' = Len(handles) + 1

initialize_connection_open ==
    /\ pc = "open"
    /\ \/ /\ duckdb_connect
          /\ Proceed("configure")
          /\ UNCHANGED <<temp_dir, files, table_info, chunks>>
       \/ /\ ConnectionFailed("external")
          /\ UNCHANGED mgr

\* SET memory_limit='4GB' and SET threads TO 4.
initialize_connection_configure ==
    /\ pc = "configure"
    /\ \/ /\ Proceed("introspect")
          /\ UNCHANGED <<mgr, chunks>>
       \/ /\ ConnectionFailed("external")
          /\ UNCHANGED mgr

\* self.table_info = self._get_table_info(); return True; then the then-branch
\* of connect_database.
initialize_connection_introspect ==
    /\ pc = "introspect"
    /\ \/ /\ table_info' = connection
          /\ connection_status' = [connection_status EXCEPT ![cur] = TRUE]
          /\ ui_table_info' = [ui_table_info EXCEPT ![cur] = connection]
          /\ notification' = Notify(cur, "success", "Connected successfully!")
          /\ last' = [RunStep(last) EXCEPT !.out = "ok"]
          /\ pc' = "idle"
          /\ cur' = ""
          /\ UNCHANGED <<temp_dir, files, connection, handles, opener,
                         credentials_content, results, execution_time,
                         error_message, chunks, uploaded, cleaned>>
       \/ /\ ConnectionFailed("external")
          /\ UNCHANGED mgr

\* ---------------------------------------------------------------- execute_query
\* The manager's execute_query: the outcomes, each with whether the text was
\* handed to a handle.
DuckDBGDriveManager_execute_query(q) ==
    IF connection = 0
    THEN {[ok |-> FALSE, df |-> NoResults, forwarded |-> FALSE,
           err |-> "Query execution failed: Database not connected"]}
    ELSE {[ok |-> r.ok, df |-> r.df, forwarded |-> TRUE,
           err |-> IF r.ok THEN "" ELSE "Query execution failed: " \o r.err] :
              r \in ConnectionExecute(handles[connection], q)}

\* The try branch, were it to leave the execution time alone.
execute_query_try_keeps_time(u, df, d) ==
    /\ results' = [results EXCEPT ![u] = df]
    /\ error_message' = [error_message EXCEPT ![u] = PyNone]
    /\ notification' = Notify(u, "success", "Query executed")
    /\ UNCHANGED execution_time

\* The try branch of the handler.
execute_query_try(u, df, d) ==
    /\ results' = [results EXCEPT ![u] = df]
    /\ execution_time' = [execution_time EXCEPT ![u] = PyFloat(d)]
    /\ error_message' = [error_message EXCEPT ![u] = PyNone]
    /\ notification' = Notify(u, "success", "Query executed")

\* The except branch, were it to reset the results as well.
execute_query_except_clears(u, msg) ==
    /\ error_message' = [error_message EXCEPT ![u] = PyStr(msg)]
    /\ notification' = Notify(u, "error", msg)
    /\ results' = [results EXCEPT ![u] = NoResults]
    /\ UNCHANGED execution_time

\* The except branch of the handler.
execute_query_except(u, msg) ==
    /\ error_message' = [error_message EXCEPT ![u] = PyStr(msg)]
    /\ notification' = Notify(u, "error", msg)
    /\ UNCHANGED <<results, execution_time>>

\* The guard, were it to ask the manager for a handle instead.
NotConnectedByManager(u) == connection = 0

\* `if not state.connection_status`
NotConnected(u) == ~connection_status[u]

execute_query(u, q) ==
    /\ pc = "idle"
    /\ IF NotConnected(u)
       THEN /\ notification' = Notify(u, "error", "Please connect to database first")
            /\ last' = Last("query", u, "rejected", FALSE, 0)
            /\ UNCHANGED <<results, execution_time, error_message>>
       ELSE \E r \in DuckDBGDriveManager_execute_query(q), d \in Durations:
                /\ IF r.ok
                   THEN execute_query_try(u, r.df, d)
                   ELSE execute_query_except(u, r.err)
                /\ last' = [Last("query", u, IF r.ok THEN "ok" ELSE "error",
                                 r.forwarded, connection) EXCEPT !.measured = d]
    /\ UNCHANGED <<mgr, credentials_content, connection_status, ui_table_info,
                   pc, cur, chunks, uploaded, cleaned>>

\* ---------------------------------------------------------------- download_results
RECURSIVE Join(_, _)
\* The fields of one line, separated by `sep`.  No cell of the model holds a
\* comma, a quote or a line break, so no field is quoted.
Join(seq, sep) ==
    IF seq = <<>> THEN ""
    ELSE IF Len(seq) = 1 THEN seq[1]
    ELSE seq[1] \o sep \o Join(Tail(seq), sep)

RECURSIVE CsvLines(_)
CsvLines(rows) ==
    IF rows = <<>> THEN ""
    ELSE Join(rows[1], ",") \o "\n" \o CsvLines(Tail(rows))

RECURSIVE CsvLinesIndexed(_, _)
CsvLinesIndexed(rows, i) ==
    IF rows = <<>> THEN ""
    ELSE ToString(i) \o "," \o Join(rows[1], ",") \o "\n"
            \o CsvLinesIndexed(Tail(rows), i + 1)

\* to_csv() with pandas' default index=True: a leading index column.
to_csv_indexed(df) ==
    "," \o Join(df.cols, ",") \o "\n" \o CsvLinesIndexed(df.rows, 0)

\* DataFrame.to_csv(index=False): the header line, then one line per row.
to_csv(df) == Join(df.cols, ",") \o "\n" \o CsvLines(df.rows)

download_results(u) ==
    /\ pc = "idle"
    /\ last' = [Last("download", u, "ok", FALSE, 0) EXCEPT
                   !.ret = IF results[u].t # "NoneType"
                           THEN PyStr(to_csv(results[u]))
                           ELSE PyNone]
    /\ UNCHANGED <<mgr, ui, notification, pc, cur, chunks, uploaded, cleaned>>

\* ---------------------------------------------------------------- cleanup
\* cleanup, were it to close the handle only.
DuckDBGDriveManager_cleanup_keeps_dir ==
    /\ handles' = IF connection # 0
                  THEN [handles EXCEPT ![connection] = "closed"]
                  ELSE handles
    /\ UNCHANGED <<temp_dir, files, connection, table_info, opener>>

DuckDBGDriveManager_cleanup ==
    /\ handles' = IF connection # 0
                  THEN [handles EXCEPT ![connection] = "closed"]
                  ELSE handles
    /\ IF temp_dir
       THEN temp_dir' = FALSE /\ files' = NoFiles
       ELSE UNCHANGED <<temp_dir, files>>
    /\ UNCHANGED <<connection, table_info, opener>>

cleanup ==
    /\ pc = "idle"
    /\ DuckDBGDriveManager_cleanup
    /\ cleaned' = TRUE
    /\ last' = Last("cleanup", "", "ok", FALSE, 0)
    /\ UNCHANGED <<ui, notification, pc, cur, chunks, uploaded>>

\* ---------------------------------------------------------------- specifications
ConnectSteps ==
    \/ initialize_connection_persist
    \/ initialize_connection_auth
    \/ initialize_connection_lookup
    \/ initialize_connection_openfile
    \/ initialize_connection_next_chunk
    \/ initialize_connection_open
    \/ initialize_connection_configure
    \/ initialize_connection_introspect

\* One user session.
Next ==
    \/ \E u \in SingleUser, f \in FileContents: on_file_upload(u, f)
    \/ \E u \in SingleUser: connect_database(u)
    \/ \E u \in SingleUser, q \in QueryTexts: execute_query(u, q)
    \/ \E u \in SingleUser: download_results(u)
    \/ ConnectSteps
    \/ cleanup

Spec == Init /\ [][Next]_vars

\* Two user sessions on the one db_manager, handlers still one at a time.
MultiFiles == {GoodCredsText, "{bad"}
MultiQueries == {"SELECT 1 AS x", "SELEC * FROM t"}

NextMulti ==
    \/ \E u \in Users, f \in MultiFiles: on_file_upload(u, f)
    \/ \E u \in Users: connect_database(u)
    \/ \E u \in Users, q \in MultiQueries: execute_query(u, q)
    \/ ConnectSteps

SpecMulti == Init /\ [][NextMulti]_vars

\* Uploads and connects of one user session, every call of a connect in flight
\* returning or raising: a step of initialize_connection that can run does run.
NextLive ==
    \/ \E u \in SingleUser, f \in FileContents: on_file_upload(u, f)
    \/ \E u \in SingleUser: connect_database(u)
    \/ ConnectSteps

SpecLive == Init /\ [][NextLive]_vars /\ WF_vars(ConnectSteps)

\* ---------------------------------------------------------------- C1
HandleOpen(h) == h # 0 /\ handles[h] = "open"
NotConnectedMessages ==
    {"Please connect to database first",
     "Query execution failed: Database not connected"}

\* C1: a SQL text is handed to a handle only while that handle is open, and a
\* query made while the manager holds no open handle is answered with the
\* not-connected condition and is not handed to any handle.
C1_QueryOnlyOnOpenHandle ==
    last.op = "query" =>
        /\ last.forwarded => HandleOpen(last.h)
        /\ ~HandleOpen(connection) =>
              ~last.forwarded /\ notification.msg \in NotConnectedMessages

\* ---------------------------------------------------------------- C2
OpenHandles == {h \in 1..Len(handles) : handles[h] = "open"}

\* C2: the handles opened and not yet closed are never more than one.
C2_AtMostOneOpenHandle == Cardinality(OpenHandles) <= 1

\* ---------------------------------------------------------------- C3
\* C3: when a connect has failed, the connection status, the manager's handle
\* and the schema snapshot (the manager's and the one shown) are what they were
\* when connect was pressed.
C3_FailedConnectRestores ==
    (last.op = "connect" /\ last.out = "failed") =>
        /\ connection_status[last.u] = last.pre_status
        /\ connection = last.pre_connection
        /\ table_info = last.pre_table_info
        /\ ui_table_info[last.u] = last.pre_ui_table_info

\* ---------------------------------------------------------------- C4
\* The error texts the engine can give on the handle the manager holds.
EngineErrorsNow ==
    {r.err : r \in {x \in UNION {ConnectionExecute(handles[connection], q) :
                                    q \in QueryTexts} : ~x.ok}}

\* C4: a query the engine rejects changes nothing but the error message (and
\* the notification): the results, the execution time, the connection status
\* (still true), the credentials, the schema shown and the manager are as
\* before, and the message is the engine's text behind the generic prefix.
C4_FailedQueryChangesOnlyError ==
    [][(last'.op = "query" /\ last'.out = "error") =>
          /\ results' = results
          /\ execution_time' = execution_time
          /\ connection_status' = connection_status
          /\ connection_status'[last'.u]
          /\ credentials_content' = credentials_content
          /\ ui_table_info' = ui_table_info
          /\ mgr' = mgr
          /\ \E e \in EngineErrorsNow:
                /\ error_message'[last'.u] = PyStr("Query execution failed: " \o e)
                /\ notification' = Notify(last'.u, "error", "Query execution failed: " \o e)
          /\ \A u \in Users \ {last'.u}: error_message'[u] = error_message[u]]_vars

\* A rejected query on an open handle, with results of an earlier query stored.
C4_Witness ==
    /\ last.op = "query" /\ last.out = "error" /\ last.forwarded
    /\ HandleOpen(connection)
    /\ results[last.u] # NoResults
    /\ error_message[last.u] = PyStr("Query execution failed: " \o ParserError)

\* ---------------------------------------------------------------- C5
\* C5 as stated: after an upload that does not parse, the stored credentials
\* are None and an error notification has been emitted.
C5_InvalidJsonUnsets ==
    (last.op = "upload" /\ last.out = "error") =>
        /\ credentials_content[last.u] = PyNone
        /\ notification = Notify(last.u, "error", "Invalid credentials file")

\* C5 amended: an upload that does not parse leaves the stored credentials as
\* they were (None when no upload has stored a value before), emits the error
\* notification and changes nothing else.
C5_InvalidJsonKeeps ==
    [][(last'.op = "upload" /\ last'.out = "error") =>
          /\ credentials_content' = credentials_content
          /\ ~uploaded[last'.u] => credentials_content'[last'.u] = PyNone
          /\ notification' = Notify(last'.u, "error", "Invalid credentials file")
          /\ pc' = "idle"
          /\ <<mgr, ui, uploaded>>' = <<mgr, ui, uploaded>>]_vars

\* An upload that does not parse, after one that stored usable credentials.
C5_Witness ==
    /\ last.op = "upload" /\ last.out = "error"
    /\ uploaded[last.u]
    /\ Truthy(credentials_content[last.u])

\* ---------------------------------------------------------------- C6
\* C6: once an upload of a user has parsed, a connect of that user is not turned
\* away at the credentials check: it goes on to initialize_connection.
C6_ParsedCredentialsReachAuth ==
    (last.op = "connect" /\ uploaded[last.u]) => last.out # "rejected"

\* ---------------------------------------------------------------- C7
\* C7: once cleanup has run, the temporary directory and the files in it do not
\* exist and the handle the manager holds, if any, is closed; this stays so
\* whatever runs afterwards.
C7_CleanupLeavesNothing ==
    cleaned =>
        /\ ~temp_dir
        /\ DOMAIN files = {}
        /\ connection # 0 => handles[connection] = "closed"

\* After a cleanup of a connected manager, a further connect was attempted.
C7_Witness ==
    /\ cleaned
    /\ connection # 0
    /\ last.op = "connect" /\ last.out = "failed" /\ last.at = "persist"

GoodCredentials(u) == AuthAccepts(json_dump(credentials_content[u]))
ExternalCauses == {"external", "not_found"}
Failed == last.out \in {"failed", "error", "rejected"}

\* What holds after any failure: the handler has returned to the event loop and
\* reported the failure to its user.
FailureHandled ==
    Failed => pc = "idle" /\ notification.kind = "error" /\ notification.u = last.u

\* A connect that failed with good credentials failed in an external call; a
\* query that failed was answered by the engine on an open handle.
FailureFromOutside ==
    /\ (last.op = "connect" /\ last.out = "failed" /\ GoodCredentials(last.u)) =>
          last.cause \in ExternalCauses
    /\ (last.op = "query" /\ last.out = "error") =>
          /\ HandleOpen(connection)
          /\ notification.msg \in {"Query execution failed: " \o e :
                                      e \in {ParserError, CatalogError}}

C10_NoCredentialsNoConnect ==
    [][(pc = "idle" /\ last'.op = "connect" /\ ~uploaded[last'.u]) =>
          /\ last'.out = "rejected"
          /\ pc' = "idle"
          /\ notification' = Notify(last'.u, "error", "Please upload credentials first")
          /\ mgr' = mgr
          /\ ui' = ui]_vars

\* A connect turned away, the user having only uploaded text that did not parse.
C10_Witness ==
    /\ last.op = "connect" /\ last.out = "rejected"
    /\ ~uploaded[last.u]
    /\ last.prev_op = "upload" /\ last.prev_out = "error"

\* ---------------------------------------------------------------- C11
\* C11: a query of a user whose connect has never succeeded (the status is
\* false) is turned away with the connect-first message: no text is handed to
\* the manager or to a handle, and the results, the execution time, the error
\* message, the other UI fields and the manager are unchanged.
C11_QueryBeforeConnectRejected ==
    [][(pc = "idle" /\ last'.op = "query" /\ ~connection_status[last'.u]) =>
          /\ last'.out = "rejected"
          /\ ~last'.forwarded
          /\ notification' = Notify(last'.u, "error", "Please connect to database first")
          /\ ui' = ui
          /\ mgr' = mgr
          /\ pc' = "idle"]_vars

\* A query turned away while the manager holds an open handle, left there by a
\* connect that failed after duckdb.connect.
C11_Witness ==
    /\ last.op = "query" /\ last.out = "rejected"
    /\ ~connection_status[last.u]
    /\ HandleOpen(connection)

\* ---------------------------------------------------------------- C12
\* C12: download_results returns None while no result is stored, and otherwise
\* the text of the stored result: the column names joined by commas on the
\* first line, then one line per row in order, no index column (columns a, b
\* with rows (1, x), (2, y) give a,b / 1,x / 2,y); it changes no state.
C12_ExportIsPureCsv ==
    [][(pc = "idle" /\ last'.op = "download") =>
          /\ <<mgr, ui, notification, pc, cur, chunks, uploaded, cleaned>>'
                = <<mgr, ui, notification, pc, cur, chunks, uploaded, cleaned>>
          /\ results[last'.u] = NoResults => last'.ret = PyNone
          /\ results[last'.u] # NoResults => last'.ret.t = "str"
          /\ results[last'.u] = DataFrame(<<"a", "b">>, << <<"1", "x">>, <<"2", "y">> >>)
                => last'.ret = PyStr("a,b\n1,x\n2,y\n")
          /\ results[last'.u] = DataFrame(<<"x">>, << <<"1">> >>)
                => last'.ret = PyStr("x\n1\n")]_vars

\* The two-column result has been exported.
C12_Witness ==
    /\ last.op = "download"
    /\ results[last.u].cols = <<"a", "b">>
    /\ last.ret = PyStr("a,b\n1,x\n2,y\n")

\* ---------------------------------------------------------------- C13
ConnectOrder ==
    <<"persist", "auth", "lookup", "openfile", "download", "open", "configure",
      "introspect">>
IsPrefix(s, t) == Len(s) <= Len(t) /\ s = SubSeq(t, 1, Len(s))
HasRun(step) == \E i \in 1..Len(last.steps): last.steps[i] = step

\* C13: the steps of a connect run in the order persist, authenticate, look up,
\* download, open, configure, introspect; the download starts only after a
\* lookup with at least one match and requests the first; the database is
\* opened only on a completely transferred file; a lookup without a match ends
\* the connect as failed with no download started and no handle created.
C13_ConnectStepsInOrder ==
    last.op = "connect" =>
        /\ IsPrefix(last.steps, ConnectOrder)
        /\ HasRun("openfile") => last.matches >= 1 /\ last.file_id = 1
        /\ (HasRun("open") /\ last.at # "open") =>
              /\ FileContent(files, DB_NAME) = "complete"
              /\ Len(handles) = last.pre_handles + 1
        /\ last.cause = "not_found" =>
              /\ last.out = "failed" /\ pc = "idle"
              /\ last.matches = 0
              /\ last.steps = <<"persist", "auth", "lookup">>
              /\ FileContent(files, DB_NAME) = last.pre_db
              /\ connection = last.pre_connection
              /\ Len(handles) = last.pre_handles

\* A lookup without a match on a reconnect: the file and the handle of the
\* earlier connect are still there.
C13_Witness ==
    /\ last.op = "connect" /\ last.cause = "not_found"
    /\ last.pre_connection # 0
    /\ last.pre_db = "complete"

C15_ResultsNeverCleared ==
    [][\A u \in Users:
          /\ results[u] # NoResults => results'[u] # NoResults
          /\ results'[u] # results[u] =>
                /\ pc = "idle"
                /\ last'.op = "query" /\ last'.out = "ok" /\ last'.u = u
                /\ results'[u].t = "DataFrame"]_vars

\* Results still stored after a cleanup and a connect that failed after it.
C15_Witness ==
    /\ results["u1"] # NoResults
    /\ cleaned
    /\ last.op = "connect" /\ last.out = "failed"
    /\ last.prev_op = "query" /\ last.prev_out = "error"

\* ---------------------------------------------------------------- C16
\* C16: a connect in flight ends, with True or with False; the download loop is
\* left only when next_chunk reports done, on to duckdb.connect with the file
\* complete, or when a call raises, which ends the connect with False.
C16_ConnectTerminates ==
    /\ [][(pc = "download" /\ pc' # "download") =>
             \/ pc' = "open" /\ FileContent(files', DB_NAME) = "complete"
             \/ /\ pc' = "idle"
                /\ last'.out = "failed" /\ last'.at = "download"
                /\ notification' = Notify(cur, "error", "Connection failed")]_vars
    /\ (pc # "idle") ~>
          (pc = "idle" /\ last.op = "connect" /\ last.out \in {"ok", "failed"})

\* The download loop after as many chunks as a transfer has at most, not done yet.
C16_Witness ==
    /\ pc = "download"
    /\ chunks = MaxChunks
    /\ FileContent(files, DB_NAME) = "partial"

\* ---------------------------------------------------------------- C17
\* C17: between handlers, a schema snapshot the manager holds was read from the
\* handle the manager holds now, never from one a later connect has replaced.
C17_SnapshotOfCurrentHandle ==
    (pc = "idle" /\ table_info # 0) => table_info = connection

\* ---------------------------------------------------------------- C18
\* C18: between the handlers of one user session of uploads, connects and
\* queries, the manager holds a handle exactly when the connection status is
\* true, and the schema shown is the manager's snapshot.
C18_UiAndManagerAgree ==
    (pc = "idle" /\ ~cleaned) =>
        \A u \in SingleUser:
            /\ connection_status[u] => connection # 0
            /\ ~connection_status[u] => connection = 0
            /\ ui_table_info[u] = table_info

====
